---- MODULE Spec2Model ----
(***************************************************************************)
(* A model of the DataUtilities repository: the PurpleAir API client       *)
(* (purple_air_api/PurpleAPIWrapper.py) and the sample converters          *)
(* (data_models/sample_model_converters_class.py).                         *)
(*                                                                         *)
(* The two components share no state.  ClientSpec is the state machine of  *)
(* one PurpleAirClient and the consumer of its streamed results; ConvSpec  *)
(* is the state machine of one Converters instance and the rows it built.  *)
(***************************************************************************)
EXTENDS Integers, Sequences, FiniteSets, TLC

VARIABLES
    cfg,        \* client: self.api_key, self.headers, self.timeout, self.BASE_URL
    call,       \* client: the public operation of the current call
    sent,       \* client: the requests handed to requests.request by the call
    resp,       \* client: the response objects the call acquired (<<>> or <<r>>)
    result,     \* client: what the call returned or raised
    gen,        \* client: state of the generator _line_iterator()
    delivered,  \* client: the lines the consumer received from the generator
    conv        \* converters: the Converters instance, its last call, its rows

vars == <<cfg, call, sent, resp, result, gen, delivered, conv>>

(***************************************************************************)
(* Bounds of the model.                                                    *)
(***************************************************************************)
\* longest list given for a list-valued parameter
MaxList == 2
\* most lines in a response body
MaxLines == 2

(***************************************************************************)
(* Python values.  An optional argument is None or Some(v); a str sent as  *)
(* a query parameter is its sequence of characters, an int is the number.  *)
(***************************************************************************)
None == [some |-> FALSE]

Some(v) == [some |-> TRUE, v |-> v]

PyStr(chars) == [t |-> "str", v |-> chars]

PyInt(n) == [t |-> "int", n |-> n]

EmptyDict == <<>>

RECURSIVE SeqsUpTo(_, _)
SeqsUpTo(S, n) ==
    IF n = 0 THEN {<<>>}
    ELSE LET shorter == SeqsUpTo(S, n - 1)
         IN  shorter \cup {Append(s, x) : s \in shorter, x \in S}

\* a few of the field names of STATION_METADATA_FIELDS / MISCELLANEOUS_FIELDS
FieldNames == {<<"v", "o", "c">>, <<"r", "s", "s", "i">>}

SensorIds == {7, 123}

ShowOnlyIds == {40}

GroupIds == {1}

MemberIds == {1234}

GroupNames == {"", "My Group"}

\* the argument values of an Optional[List[...]] parameter
OptLists(S) == {None} \cup {Some(l) : l \in SeqsUpTo(S, MaxList)}

\* Python truthiness of an Optional[List]: None and [] are falsy
Truthy(o) == o.some /\ Len(o.v) > 0

Digits == <<"0", "1", "2", "3", "4", "5", "6", "7", "8", "9">>

\* str(i) of a non-negative int, as its characters
RECURSIVE str(_)
str(i) ==
    IF i < 10 THEN <<Digits[i + 1]>>
    ELSE str(i \div 10) \o <<Digits[(i % 10) + 1]>>

\* a plausible slip: the parts are concatenated without the separator
RECURSIVE join_no_sep(_, _)
join_no_sep(sep, parts) ==
    IF Len(parts) = 0 THEN <<>> ELSE parts[1] \o join_no_sep(sep, Tail(parts))

\* sep.join(parts) of Python, on character sequences
RECURSIVE join(_, _)
join(sep, parts) ==
    IF Len(parts) = 0 THEN <<>>
    ELSE IF Len(parts) = 1 THEN parts[1]
    ELSE parts[1] \o sep \o join(sep, Tail(parts))

\* ",".join(str(i) for i in ids)
MapStr(ids) == [k \in 1..Len(ids) |-> str(ids[k])]

\* params[key] = value when the guarding condition holds
Put(cond, key, value) == IF cond THEN key :> value ELSE EmptyDict

(***************************************************************************)
(* The transport: requests.request returns a response or raises.           *)
(***************************************************************************)
BASE_URL == "https://api.purpleair.com/v1"

NoHeader == "<absent>"

ContentTypes ==
    {"application/json", "Application/JSON", "application/json; charset=utf-8",
     "text/csv", NoHeader}

\* status codes on both sides of every boundary the code or the claims name
OkStatuses == {200, 299}

ErrorStatuses == {199, 300, 399, 400, 404, 499, 500, 599}

BodyLines == <<"l1", "l2", "l3", "l4">>

Response(status, ctype, jsonOk, n) ==
    [status |-> status, ctype |-> ctype, jsonOk |-> jsonOk,
     lines |-> SubSeq(BodyLines, 1, n), closed |-> 0]

Responses ==
    {Response(s, c, j, n) : s \in OkStatuses, c \in ContentTypes,
                            j \in BOOLEAN, n \in 0..MaxLines}
    \cup {Response(s, "text/csv", j, 1) : s \in ErrorStatuses, j \in BOOLEAN}

\* dict.get(key, default) on the response headers
HeaderGet(r, default) == IF r.ctype = NoHeader THEN default ELSE r.ctype

\* a plausible slip: the header value is compared as it was received
lower_omitted(s) == s

\* str.lower() on the content types of the model
lower(s) == IF s = "Application/JSON" THEN "application/json" ELSE s

\* resp.close()
close(r) == [r EXCEPT !.closed = @ + 1]

Raise(exc, label) == [kind |-> "raise", exc |-> exc, label |-> label]

Return(kind) == [kind |-> kind, exc |-> "", label |-> ""]

\* a plausible slip: only server errors are treated as failures
status_is_error_5xx(status) == status >= 500

\* the status check of _request
status_is_error(status) == status < 200 \/ status >= 300

\* _request after requests.request returned r
_request_response(r, stream) ==
    IF status_is_error(r.status)
    THEN [resp |-> r, result |-> Raise("PurpleAirAPIError", "Error"), gen |-> "none"]
    ELSE LET content_type == lower(HeaderGet(r, "")) IN
         IF content_type = "application/json"
         THEN IF r.jsonOk
              THEN [resp |-> close(r), result |-> Return("json"), gen |-> "none"]
              ELSE [resp |-> r,
                    result |-> Raise("PurpleAirAPIError", "Non-JSON response"),
                    gen |-> "none"]
         ELSE IF stream
              THEN [resp |-> r, result |-> Return("lines"), gen |-> "created"]
              ELSE [resp |-> r, result |-> Return("text"), gen |-> "none"]

\* headers=self.headers in the call of requests.request; first a plausible
\* slip: the request is sent without the key
request_headers_without_key(self) == [X_API_Key |-> ""]

request_headers(self) == self.headers

\* the exceptions requests.request raises instead of returning a response
TransportErrors == {"ConnectionError", "Timeout"}

\* one blocking call per operation: a call starts when no call is in progress
\* and the caller is done with the previous call's result
CanCall == call.op = "none"

_request(method, path, params, json_body, stream) ==
    /\ CanCall
    /\ sent' = <<[method |-> method, url |-> cfg.BASE_URL \o path,
                  headers |-> request_headers(cfg), params |-> params,
                  json |-> json_body, timeout |-> cfg.timeout]>>
    /\ delivered' = <<>>
    /\ \/ \E r \in Responses :
            LET out == _request_response(r, stream)
            IN  /\ resp' = <<out.resp>>
                /\ result' = out.result
                /\ gen' = out.gen
       \/ \E exc \in TransportErrors :
            /\ resp' = <<>>
            /\ result' = Raise(exc, "")
            /\ gen' = "none"
    /\ UNCHANGED <<cfg, conv>>

(***************************************************************************)
(* The public operations of PurpleAirClient.                               *)
(***************************************************************************)
NoBody == None

\* the scalar arguments of a call: None for those the operation does not take
Args(sensor_index, group_id, member_id, return_format, name) ==
    [sensor_index |-> sensor_index, group_id |-> group_id,
     member_id |-> member_id, return_format |-> return_format, name |-> name]

NoArgs == Args(None, None, None, None, None)

\* the operation called and the arguments it was given
Called(op, args, fields, sensor_indices, show_only, stream) ==
    call' = [op |-> op, stream |-> stream, args |-> args,
             lists |-> [fields |-> fields, sensor_index |-> sensor_indices,
                        show_only |-> show_only]]

NoCall == [op |-> "none", stream |-> FALSE, args |-> NoArgs,
           lists |-> [fields |-> None, sensor_index |-> None, show_only |-> None]]

\* path = f"/sensors/{sensor_index}/history", with "/csv" appended for csv;
\* first a plausible slip: the csv path whatever the format
history_path_always_csv(sensor_index, return_format) ==
    "/sensors/" \o ToString(sensor_index) \o "/history" \o "/csv"

history_path(sensor_index, return_format) ==
    LET path == "/sensors/" \o ToString(sensor_index) \o "/history"
    IN  IF return_format = "csv" THEN path \o "/csv" ELSE path

Averages == {None, Some(10)}

get_organization ==
    /\ CanCall
    /\ Called("get_organization", NoArgs, None, None, None, FALSE)
    /\ _request("GET", "/organization", None, NoBody, FALSE)

get_sensor ==
    /\ CanCall
    /\ \E sensor_index \in SensorIds, fields \in OptLists(FieldNames) :
        LET path == "/sensors/" \o ToString(sensor_index)
            params == Put(Truthy(fields), "fields", PyStr(join(<<",">>, fields.v)))
        IN  /\ Called("get_sensor", Args(Some(sensor_index), None, None, None, None),
                   fields, None, None, FALSE)
            /\ _request("GET", path, Some(params), NoBody, FALSE)

get_sensors ==
    /\ CanCall
    /\ \E sensor_indices \in SeqsUpTo(SensorIds, MaxList),
       fields \in OptLists(FieldNames), show_only \in OptLists(ShowOnlyIds) :
        LET params ==
                Put(Len(sensor_indices) > 0, "sensor_index",
                    PyStr(join(<<",">>, MapStr(sensor_indices))))
                @@ Put(Truthy(show_only), "show_only",
                       PyStr(join(<<",">>, MapStr(show_only.v))))
                @@ Put(Truthy(fields), "fields", PyStr(join(<<",">>, fields.v)))
        IN  /\ Called("get_sensors", NoArgs, fields, Some(sensor_indices), show_only, FALSE)
            /\ _request("GET", "/sensors", Some(params), NoBody, FALSE)

get_sensor_history ==
    /\ CanCall
    /\ \E sensor_index \in SensorIds, average \in Averages,
       fields \in OptLists(FieldNames), return_format \in {"json", "csv"},
       stream \in BOOLEAN :
        LET start_timestamp == 1000
            end_timestamp == 2000
            path == history_path(sensor_index, return_format)
            params ==
                ("start_timestamp" :> PyInt(start_timestamp))
                @@ ("end_timestamp" :> PyInt(end_timestamp))
                @@ Put(average.some, "average", PyInt(average.v))
                @@ Put(Truthy(fields), "fields", PyStr(join(<<",">>, fields.v)))
        IN  /\ Called("get_sensor_history",
                   Args(Some(sensor_index), None, None, Some(return_format), None),
                   fields, None, None, stream)
            /\ _request("GET", path, Some(params), NoBody, stream)

create_group ==
    /\ CanCall
    /\ \E name \in GroupNames :
        /\ Called("create_group", Args(None, None, None, None, Some(name)),
                  None, None, None, FALSE)
        /\ _request("POST", "/groups", None, Some([name |-> name]), FALSE)

get_groups ==
    /\ CanCall
    /\ Called("get_groups", NoArgs, None, None, None, FALSE)
    /\ _request("GET", "/groups", None, NoBody, FALSE)

get_group_detail ==
    /\ CanCall
    /\ \E group_id \in GroupIds :
        /\ Called("get_group_detail", Args(None, Some(group_id), None, None, None),
                  None, None, None, FALSE)
        /\ _request("GET", "/groups/" \o ToString(group_id), None, NoBody, FALSE)

\* update_group with a name: the body is not empty
update_group ==
    /\ CanCall
    /\ \E group_id \in GroupIds, name \in {Some(n) : n \in GroupNames} :
        /\ Called("update_group", Args(None, Some(group_id), None, None, name),
                  None, None, None, FALSE)
        /\ _request("PUT", "/groups/" \o ToString(group_id), None,
                    Some([name |-> name.v]), FALSE)

\* a plausible slip: the empty body is noticed only after the request is sent
update_group_no_name_after_request ==
    /\ CanCall
    /\ \E group_id \in GroupIds :
        /\ Called("update_group", Args(None, Some(group_id), None, None, None),
                  None, None, None, FALSE)
        /\ sent' = <<[method |-> "PUT",
                      url |-> cfg.BASE_URL \o "/groups/" \o ToString(group_id),
                      headers |-> cfg.headers, params |-> None,
                      json |-> None, timeout |-> cfg.timeout]>>
    /\ resp' = <<>>
    /\ result' = Raise("ValueError", "No fields to update for group.")
    /\ gen' = "none"
    /\ delivered' = <<>>
    /\ UNCHANGED <<cfg, conv>>

\* update_group with name None: ValueError before any request
update_group_no_name ==
    /\ CanCall
    /\ \E group_id \in GroupIds :
           Called("update_group", Args(None, Some(group_id), None, None, None),
                  None, None, None, FALSE)
    /\ sent' = <<>>
    /\ resp' = <<>>
    /\ result' = Raise("ValueError", "No fields to update for group.")
    /\ gen' = "none"
    /\ delivered' = <<>>
    /\ UNCHANGED <<cfg, conv>>

delete_group ==
    /\ CanCall
    /\ \E group_id \in GroupIds :
        /\ Called("delete_group", Args(None, Some(group_id), None, None, None),
                  None, None, None, FALSE)
        /\ _request("DELETE", "/groups/" \o ToString(group_id), None, NoBody, FALSE)

add_member_to_group ==
    /\ CanCall
    /\ \E group_id \in GroupIds, sensor_index \in SensorIds :
        /\ Called("add_member_to_group",
                  Args(Some(sensor_index), Some(group_id), None, None, None),
                  None, None, None, FALSE)
        /\ _request("POST", "/groups/" \o ToString(group_id) \o "/members",
                    None, Some([sensor_index |-> sensor_index]), FALSE)

remove_member_from_group ==
    /\ CanCall
    /\ \E group_id \in GroupIds, member_id \in MemberIds :
        /\ Called("remove_member_from_group",
                  Args(None, Some(group_id), Some(member_id), None, None),
                  None, None, None, FALSE)
        /\ _request("DELETE",
                    "/groups/" \o ToString(group_id) \o "/members/"
                        \o ToString(member_id),
                    None, NoBody, FALSE)

get_members_data ==
    /\ CanCall
    /\ \E group_id \in GroupIds, fields \in OptLists(FieldNames),
       modified_since \in {None, Some(1000)} :
        LET path == "/groups/" \o ToString(group_id) \o "/members/data"
            params ==
                Put(Truthy(fields), "fields", PyStr(join(<<",">>, fields.v)))
                @@ Put(modified_since.some, "modified_since",
                       PyInt(modified_since.v))
        IN  /\ Called("get_members_data", Args(None, Some(group_id), None, None, None),
                   fields, None, None, FALSE)
            /\ _request("GET", path, Some(params), NoBody, FALSE)

get_member_data ==
    /\ CanCall
    /\ \E group_id \in GroupIds, member_id \in MemberIds,
       fields \in OptLists(FieldNames) :
        LET path == "/groups/" \o ToString(group_id) \o "/members/"
                        \o ToString(member_id) \o "/data"
            params == Put(Truthy(fields), "fields", PyStr(join(<<",">>, fields.v)))
        IN  /\ Called("get_member_data",
                   Args(None, Some(group_id), Some(member_id), None, None),
                   fields, None, None, FALSE)
            /\ _request("GET", path, Some(params), NoBody, FALSE)

(***************************************************************************)
(* The consumer of the generator returned for a streamed response.         *)
(***************************************************************************)
\* a plausible slip: the generator has no finally block
_line_iterator_no_finally(r) == r

\* the finally block of _line_iterator
_line_iterator_finally(r) == close(r)

\* next(it): run _line_iterator to its next yield, or to its end
NextLine ==
    /\ gen \in {"created", "suspended", "exhausted"}
    /\ LET r == resp[1] IN
       IF gen = "exhausted"
       THEN UNCHANGED <<resp, gen, delivered>>
       ELSE IF Len(delivered) < Len(r.lines)
       THEN /\ delivered' = Append(delivered, r.lines[Len(delivered) + 1])
            /\ gen' = "suspended"
            /\ UNCHANGED resp
       ELSE /\ resp' = <<_line_iterator_finally(r)>>
            /\ gen' = "exhausted"
            /\ UNCHANGED delivered
    /\ UNCHANGED <<cfg, call, sent, result, conv>>

\* the consumer drops the generator: it.close(), at the latest when collected
Abandon ==
    /\ gen \in {"created", "suspended", "exhausted"}
    /\ resp' = IF gen = "suspended" THEN <<_line_iterator_finally(resp[1])>>
               ELSE resp
    /\ gen' = IF gen = "created" THEN "dropped_unstarted"
              ELSE IF gen = "suspended" THEN "dropped_suspended"
              ELSE "dropped_exhausted"
    /\ UNCHANGED <<cfg, call, sent, result, delivered, conv>>

\* the caller is done with the call's result (or exception); the client is
\* ready for the next call
Finish ==
    /\ call.op # "none"
    /\ gen \notin {"created", "suspended"}
    /\ call' = NoCall
    /\ sent' = <<>>
    /\ resp' = <<>>
    /\ result' = Return("none")
    /\ gen' = "none"
    /\ delivered' = <<>>
    /\ UNCHANGED <<cfg, conv>>

(***************************************************************************)
(* The client's specification.                                             *)
(***************************************************************************)
ApiKeys == {"test_key"}

ClientTimeouts == {1, 10}

ConvIdle == [op |-> "none"]

ClientInit ==
    /\ \E api_key \in ApiKeys, timeout \in ClientTimeouts :
            cfg = [api_key |-> api_key, headers |-> [X_API_Key |-> api_key],
                   timeout |-> timeout, BASE_URL |-> BASE_URL]
    /\ call = NoCall
    /\ sent = <<>>
    /\ resp = <<>>
    /\ result = Return("none")
    /\ gen = "none"
    /\ delivered = <<>>
    /\ conv = ConvIdle

ClientNext ==
    \/ get_organization
    \/ get_sensor
    \/ get_sensors
    \/ get_sensor_history
    \/ create_group
    \/ get_groups
    \/ get_group_detail
    \/ update_group
    \/ update_group_no_name
    \/ delete_group
    \/ add_member_to_group
    \/ remove_member_from_group
    \/ get_members_data
    \/ get_member_data
    \/ NextLine
    \/ Abandon
    \/ Finish

ClientSpec == ClientInit /\ [][ClientNext]_vars

(***************************************************************************)
(* Claims about the client.                                                *)
(***************************************************************************)
HasResponse == call.op # "none" /\ Len(resp) = 1

\* the call is over: it returned or raised, and a returned generator is no
\* longer live
CallOver == call.op # "none" /\ gen \notin {"created", "suspended"}

\* C1: whatever the operation, a response with a status in [400,599] makes
\* the call raise PurpleAirAPIError, and requests.request was invoked exactly
\* once during the call.
C1_ErrorStatusRaisesOnce ==
    (HasResponse /\ resp[1].status >= 400 /\ resp[1].status <= 599)
        => /\ result.kind = "raise"
           /\ result.exc = "PurpleAirAPIError"
           /\ Len(sent) = 1

C1_Witness ==
    /\ call.op = "get_group_detail"
    /\ HasResponse
    /\ resp[1].status = 404
    /\ result.exc = "PurpleAirAPIError"
    /\ Len(sent) = 1

\* C2: a streamed get_sensor_history call that returned a line sequence:
\* close() is never invoked twice on the response, and it has been invoked
\* exactly once when the consumer read at least the first line and then
\* dropped the sequence, when it read the sequence to exhaustion, and when it
\* dropped the sequence after exhaustion.
C2_StreamClosedOnce ==
    (call.op = "get_sensor_history" /\ result.kind = "lines")
        => /\ resp[1].closed <= 1
           /\ gen \in {"dropped_suspended", "exhausted", "dropped_exhausted"}
                => resp[1].closed = 1

C2_Witness ==
    /\ call.op = "get_sensor_history"
    /\ result.kind = "lines"
    /\ gen = "dropped_suspended"
    /\ Len(delivered) = 1
    /\ Len(resp[1].lines) = 2
    /\ resp[1].closed = 1

\* C3 (as claimed): once a call that acquired a response is over, on any exit
\* path, close() has been invoked on that response exactly once.
C3_ClosedOnEveryExitPath ==
    (CallOver /\ Len(resp) = 1) => resp[1].closed = 1

\* C4 (as claimed): a 2xx response whose media type is application/json,
\* with or without parameters, and whose body is not JSON makes the call
\* raise PurpleAirAPIError "Non-JSON response".
JsonMediaTypes ==
    {"application/json", "Application/JSON", "application/json; charset=utf-8"}

C4_UndecodableJsonRaises ==
    (HasResponse /\ resp[1].status >= 200 /\ resp[1].status < 300
     /\ resp[1].ctype \in JsonMediaTypes /\ ~resp[1].jsonOk)
        => /\ result.kind = "raise"
           /\ result.exc = "PurpleAirAPIError"
           /\ result.label = "Non-JSON response"

\* the pieces of a character sequence between its commas
RECURSIVE SplitCommas(_)
SplitCommas(chars) ==
    IF \A k \in 1..Len(chars) : chars[k] # ","
    THEN <<chars>>
    ELSE LET k == CHOOSE j \in 1..Len(chars) :
                      chars[j] = "," /\ \A h \in 1..(j - 1) : chars[h] # ","
         IN  <<SubSeq(chars, 1, k - 1)>>
                 \o SplitCommas(SubSeq(chars, k + 1, Len(chars)))

DigitValue(c) == CHOOSE d \in 0..9 : Digits[d + 1] = c

\* the number a sequence of decimal digits denotes
RECURSIVE ParseInt(_)
ParseInt(chars) ==
    IF Len(chars) = 0 THEN 0
    ELSE 10 * ParseInt(SubSeq(chars, 1, Len(chars) - 1))
             + DigitValue(chars[Len(chars)])

\* the elements of a list argument, read back from its query parameter
ReadBack(key, pieces) ==
    IF key = "fields" THEN pieces
    ELSE [k \in 1..Len(pieces) |-> ParseInt(pieces[k])]

ListParams == {"fields", "sensor_index", "show_only"}

\* C10: every non-empty list argument is sent as one query parameter whose
\* value is a single string; cut at its commas, the string gives back the
\* list's elements in their original order.
C10_ListsCommaJoined ==
    (call.op # "none" /\ Len(sent) = 1)
        => \A key \in ListParams :
              Truthy(call.lists[key])
                => /\ sent[1].params.some
                   /\ key \in DOMAIN sent[1].params.v
                   /\ sent[1].params.v[key].t = "str"
                   /\ ReadBack(key, SplitCommas(sent[1].params.v[key].v))
                          = call.lists[key].v

C10_Witness ==
    /\ call.op = "get_sensors"
    /\ Len(sent) = 1
    /\ call.lists["sensor_index"] = Some(<<7, 123>>)
    /\ call.lists["fields"] = Some(<<<<"v", "o", "c">>, <<"r", "s", "s", "i">>>>)
    /\ sent[1].params.v["sensor_index"].v = <<"7", ",", "1", "2", "3">>
    /\ sent[1].params.v["fields"].v
           = <<"v", "o", "c", ",", "r", "s", "s", "i">>

\* the interface table: the method of each operation
InterfaceMethod(op) ==
    CASE op \in {"create_group", "add_member_to_group"} -> "POST"
      [] op = "update_group" -> "PUT"
      [] op \in {"delete_group", "remove_member_from_group"} -> "DELETE"
      [] OTHER -> "GET"

\* the interface table: the path template of each operation, with the path
\* parameters of the call substituted
InterfacePath(c) ==
    LET id == IF c.args.sensor_index.some THEN ToString(c.args.sensor_index.v)
              ELSE ""
        group == IF c.args.group_id.some THEN ToString(c.args.group_id.v) ELSE ""
        member == IF c.args.member_id.some THEN ToString(c.args.member_id.v)
                  ELSE ""
    IN  CASE c.op = "get_organization" -> "/organization"
          [] c.op = "get_sensor" -> "/sensors/" \o id
          [] c.op = "get_sensors" -> "/sensors"
          [] c.op = "get_sensor_history" ->
                 IF c.args.return_format = Some("csv")
                 THEN "/sensors/" \o id \o "/history/csv"
                 ELSE "/sensors/" \o id \o "/history"
          [] c.op \in {"create_group", "get_groups"} -> "/groups"
          [] c.op \in {"get_group_detail", "update_group", "delete_group"} ->
                 "/groups/" \o group
          [] c.op = "add_member_to_group" -> "/groups/" \o group \o "/members"
          [] c.op = "remove_member_from_group" ->
                 "/groups/" \o group \o "/members/" \o member
          [] c.op = "get_members_data" -> "/groups/" \o group \o "/members/data"
          [] c.op = "get_member_data" ->
                 "/groups/" \o group \o "/members/" \o member \o "/data"

\* the interface table: the JSON body of each operation
InterfaceBody(c) ==
    CASE c.op \in {"create_group", "update_group"} ->
             Some([name |-> c.args.name.v])
      [] c.op = "add_member_to_group" ->
             Some([sensor_index |-> c.args.sensor_index.v])
      [] OTHER -> None

\* update_group without a name is refused before anything is sent
Refused == call.op = "update_group" /\ ~call.args.name.some

\* C11: every call of an operation (an update_group without a name, which is
\* refused before sending, aside) has issued exactly one request; its method
\* and its URL, the base URL followed by the operation's path with the path
\* parameters substituted, are those of the interface table;
\* get_sensor_history ends in /csv exactly when return_format is "csv";
\* create_group sends {name}, add_member_to_group sends {sensor_index}, and
\* the GET and DELETE operations send no body.
C11_RequestsFollowInterface ==
    (call.op # "none" /\ ~Refused)
        => /\ Len(sent) = 1
           /\ sent[1].method = InterfaceMethod(call.op)
           /\ sent[1].url = "https://api.purpleair.com/v1" \o InterfacePath(call)
           /\ sent[1].json = InterfaceBody(call)
           /\ sent[1].method \in {"GET", "DELETE"} => sent[1].json = None

C11_Witness ==
    /\ call.op = "get_sensor_history"
    /\ call.args.return_format = Some("csv")
    /\ call.args.sensor_index = Some(123)
    /\ Len(sent) = 1
    /\ sent[1].method = "GET"
    /\ sent[1].url = "https://api.purpleair.com/v1/sensors/123/history/csv"
    /\ sent[1].json = None

\* the call failed: the transport raised, the status is not 2xx, or the body
\* of a 2xx application/json response is not JSON
TransportFailed == call.op # "none" /\ Len(sent) = 1 /\ Len(resp) = 0

CallFailed ==
    \/ TransportFailed
    \/ HasResponse /\ (resp[1].status < 200 \/ resp[1].status >= 300)
    \/ HasResponse /\ resp[1].ctype \in {"application/json", "Application/JSON"}
                   /\ ~resp[1].jsonOk

\* C12 (as claimed): every failure of a call, a transport failure, a non-2xx
\* status or an undecodable body, reaches the caller as PurpleAirAPIError and
\* as no other exception type.
C12_EveryFailureIsApiError ==
    CallFailed => (result.kind = "raise" /\ result.exc = "PurpleAirAPIError")

\* C13: update_group without a name fails with an error and nothing was
\* handed to the transport; with a name (the empty string included) exactly
\* one request was sent, a PUT to /groups/{id} with the body {name}.
C13_UpdateGroupNeedsName ==
    call.op = "update_group"
        => IF call.args.name.some
           THEN /\ Len(sent) = 1
                /\ sent[1].method = "PUT"
                /\ sent[1].url = "https://api.purpleair.com/v1/groups/"
                                     \o ToString(call.args.group_id.v)
                /\ sent[1].json = Some([name |-> call.args.name.v])
           ELSE /\ result.kind = "raise"
                /\ Len(sent) = 0
                /\ Len(resp) = 0

C13_Witness ==
    /\ call.op = "update_group"
    /\ ~call.args.name.some
    /\ result = Raise("ValueError", "No fields to update for group.")
    /\ Len(sent) = 0

\* every request the call sent carries the key and the timeout of the client
SentWithConfig ==
    \A i \in DOMAIN sent :
        /\ sent[i].headers = [X_API_Key |-> cfg.api_key]
        /\ sent[i].timeout = cfg.timeout

\* C14: no step of any sequence of calls, successful or failing, streamed or
\* not, changes the client's api_key, headers, timeout or base URL; the
\* headers are the X-API-Key header with the api_key, and every request is
\* sent with that header and with the timeout given at construction.
C14_ConfigurationFixed ==
    /\ [][cfg' = cfg]_vars
    /\ [](cfg.headers = [X_API_Key |-> cfg.api_key])
    /\ [](cfg.BASE_URL = "https://api.purpleair.com/v1")
    /\ []SentWithConfig

\* a streamed call read to its end by a client built with timeout 1
C14_Witness ==
    /\ call.op = "get_sensor_history"
    /\ call.stream
    /\ gen = "exhausted"
    /\ cfg.timeout = 1
    /\ cfg.api_key = "test_key"
    /\ Len(sent) = 1
    /\ sent[1].timeout = 1
    /\ sent[1].headers = [X_API_Key |-> "test_key"]

\* the lines a consumer received are the first lines of the body, in order
DeliveredInOrder ==
    /\ Len(delivered) <= Len(resp[1].lines)
    /\ delivered = SubSeq(resp[1].lines, 1, Len(delivered))

MaxAnswers == 2
\* most attachments of a sample
MaxAttachments == 1
\* longest list given to pydantic_list_to_sqlalchemy
MaxBatch == 3

Str(s) == [t |-> "str", v |-> s]

Url(s) == [t |-> "url", v |-> s]

\* an int, a float and a bool, by their literals; a mapping, by its repr
Integer(s) == [t |-> "int", v |-> s]

Float(s) == [t |-> "float", v |-> s]

Bool(s) == [t |-> "bool", v |-> s]

Map(s) == [t |-> "dict", v |-> s]

List(items) == [t |-> "list", items |-> items]

Item(k, v) == [k |-> k, v |-> v]

DictKeys(d) == {d[i].k : i \in DOMAIN d}

DictGet(d, k, default) ==
    IF k \in DictKeys(d)
    THEN d[CHOOSE i \in DOMAIN d : d[i].k = k].v
    ELSE default

\* d[k] = v: a present key keeps its place, a new key goes last
DictSet(d, k, v) ==
    IF k \in DictKeys(d)
    THEN [i \in DOMAIN d |-> IF d[i].k = k THEN Item(k, v) ELSE d[i]]
    ELSE Append(d, Item(k, v))

\* {k: v for k, v in d.items() if keep(k)}
DictFilter(d, keep(_)) == SelectSeq(d, LAMBDA it : keep(it.k))

\* d without key k (the dict after d.pop(k, default))
DictWithout(d, k) == SelectSeq(d, LAMBDA it : it.k # k)

(***************************************************************************)
(* The pydantic models (data_models/sampling_data_record.py), with the     *)
(* fields the model keeps of each: their names in declaration order,       *)
(* which are required, and the defaults of the others.                     *)
(***************************************************************************)
ModelFields(cls) ==
    CASE cls = "SampleModel" -> <<"source", "name", "latitude">>
      [] cls = "AnswerModel" ->
             <<"key", "value_text", "value_boolean", "value_json", "answer_order">>
      [] cls = "AttachmentModel" -> <<"filename", "storage_url">>

Required(cls) ==
    CASE cls = "SampleModel" -> {"source"}
      [] cls = "AnswerModel" -> {"key"}
      [] cls = "AttachmentModel" -> {"filename"}

\* answer_order: Optional[int] = 0; every other optional field defaults to None
FieldDefault(cls, f) ==
    IF cls = "AnswerModel" /\ f = "answer_order" THEN Integer("0") ELSE None

\* class Config: extra = "allow" on SampleModel; the others ignore extra keys
AllowsExtra(cls) == cls = "SampleModel"

Range(seq) == {seq[i] : i \in DOMAIN seq}

\* the field validators: latitude is ge=-90, le=90; storage_url becomes a URL
ValueOk(cls, f, v) ==
    IF cls = "SampleModel" /\ f = "latitude" THEN v \in {None, Float("45")}
    ELSE TRUE

Coerce(cls, f, v) ==
    IF cls = "AttachmentModel" /\ f = "storage_url" /\ v # None
    THEN Url(v.v)
    ELSE v

\* a model instance: its declared fields, its extra attributes, its children
Instance(cls, fields, extras, answers, attachments) ==
    [cls |-> cls, fields |-> fields, extras |-> extras,
     answers |-> answers, attachments |-> attachments]

\* cls.parse_obj(data) for a child model: the instance, or a validation error
parse_child(cls, data) ==
    LET names == Range(ModelFields(cls))
        given(f) == f \in DictKeys(data)
        value(f) == IF given(f) THEN DictGet(data, f, None)
                    ELSE FieldDefault(cls, f)
        ok == /\ \A f \in Required(cls) : given(f) /\ value(f) # None
              /\ \A f \in names : ValueOk(cls, f, value(f))
    IN  IF ok
        THEN [ok |-> TRUE,
              inst |-> Instance(cls, [f \in names |-> Coerce(cls, f, value(f))],
                                <<>>, <<>>, <<>>)]
        ELSE [ok |-> FALSE]

\* the children of a mapping given to SampleModel.parse_obj
parse_children(cls, items) ==
    [i \in DOMAIN items |-> parse_child(cls, items[i])]

\* SampleModel.parse_obj(data)
parse_obj(data) ==
    LET cls == "SampleModel"
        names == Range(ModelFields(cls))
        given(f) == f \in DictKeys(data)
        value(f) == IF given(f) THEN DictGet(data, f, None)
                    ELSE FieldDefault(cls, f)
        answers == parse_children("AnswerModel",
                                  DictGet(data, "answers", List(<<>>)).items)
        attachments == parse_children("AttachmentModel",
                                      DictGet(data, "attachments", List(<<>>)).items)
        ok == /\ \A f \in Required(cls) : given(f) /\ value(f) # None
              /\ \A f \in names : ValueOk(cls, f, value(f))
              /\ \A i \in DOMAIN answers : answers[i].ok
              /\ \A i \in DOMAIN attachments : attachments[i].ok
    IN  IF ok
        THEN [ok |-> TRUE,
              inst |-> Instance(cls, [f \in names |-> value(f)],
                                DictFilter(data, LAMBDA k :
                                    k \notin names \cup {"answers", "attachments"}),
                                [i \in DOMAIN answers |-> answers[i].inst],
                                [i \in DOMAIN attachments |-> attachments[i].inst])]
        ELSE [ok |-> FALSE]

\* a plausible slip: dict() without exclude_none, every declared field is kept
RECURSIVE SetFieldsKeepingNone(_, _)
SetFieldsKeepingNone(inst, names) ==
    IF Len(names) = 0 THEN <<>>
    ELSE <<Item(Head(names), inst.fields[Head(names)])>>
             \o SetFieldsKeepingNone(inst, Tail(names))

\* the declared fields of an instance that are not None, in declaration order
RECURSIVE SetFields(_, _)
SetFields(inst, names) ==
    IF Len(names) = 0 THEN <<>>
    ELSE LET f == Head(names)
             rest == SetFields(inst, Tail(names))
         IN  IF inst.fields[f] = None THEN rest
             ELSE <<Item(f, inst.fields[f])>> \o rest

\* child.dict(exclude_none=True)
child_dict(inst) == SetFields(inst, ModelFields(inst.cls))

\* p.dict(exclude_none=True) of a sample: the declared fields, the children
\* as dicts, then the extra attributes
dict(inst) ==
    SetFields(inst, ModelFields(inst.cls))
        \o <<Item("answers",
                  List([i \in DOMAIN inst.answers |-> child_dict(inst.answers[i])])),
             Item("attachments",
                  List([i \in DOMAIN inst.attachments |->
                            child_dict(inst.attachments[i])]))>>
        \o SelectSeq(inst.extras, LAMBDA it : it.v # None)

(***************************************************************************)
(* Converters (data_models/sample_model_converters_class.py).  conv holds  *)
(* the instance (field_map and the three table classes), the last call     *)
(* and the rows the caller holds.                                          *)
(***************************************************************************)
\* an argument that is a pydantic model instance, or any other mapping
Model(inst) == [kind |-> "model", inst |-> inst]

Raw(data) == [kind |-> "raw", data |-> data]

\* hasattr(x, "dict")
hasattr_dict(x) == x.kind = "model"

Ok(value) == [ok |-> TRUE, value |-> value, exc |-> ""]

Err(exc) == [ok |-> FALSE, value |-> <<>>, exc |-> exc]

\* [c.name for c in sa_class.__table__.columns]
_table_column_names(sa_class) == conv.tables[sa_class]

\* a plausible slip: the rename table is ignored
_apply_field_map_identity(data) == data

RECURSIVE Remap(_, _)
Remap(items, remapped) ==
    IF Len(items) = 0 THEN remapped
    ELSE LET k == Head(items).k
             target == IF k \in DOMAIN conv.field_map
                       THEN conv.field_map[k] ELSE k
         IN  Remap(Tail(items), DictSet(remapped, target, Head(items).v))

_apply_field_map(data) ==
    IF DOMAIN conv.field_map = {} THEN data ELSE Remap(data, <<>>)

\* sa_class(**kwargs): the columns given are set, the others read None; a
\* sample class that declares the relationships exposes its (still empty)
\* lists of child rows
Row(sa_class, kwargs) ==
    [cls |-> sa_class,
     kwargs |-> kwargs,
     attrs |-> [col \in Range(_table_column_names(sa_class)) |->
                    DictGet(kwargs, col, None)],
     children |-> IF sa_class = "sample" /\ conv.tables.relationships
                  THEN Some([answers |-> <<>>, attachments |-> <<>>])
                  ELSE None]

_dict_to_sa(sa_class, values) ==
    LET columns == Range(_table_column_names(sa_class))
        mapped == _apply_field_map(values)
        filtered == DictFilter(mapped, LAMBDA k : k \in columns)
    IN  Row(sa_class, filtered)

\* the dict a child model is converted from: answer.dict(exclude_none=True),
\* or that of the parsed argument
ChildDict(cls, x, sample_row_id) ==
    LET parsed == IF hasattr_dict(x) THEN [ok |-> TRUE, inst |-> x.inst]
                  ELSE parse_child(cls, x.data)
    IN  IF ~parsed.ok THEN Err("ValidationError")
        ELSE LET d == child_dict(parsed.inst)
             IN  Ok(IF sample_row_id # None
                    THEN DictSet(d, "sample_id", sample_row_id) ELSE d)

answer_model_to_row(answer, sample_row_id) ==
    LET d == ChildDict("AnswerModel", answer, sample_row_id)
    IN  IF ~d.ok THEN d ELSE Ok(_dict_to_sa("sample_answer", d.value))

\* str(url)
UrlToStr(v) == IF v.t = "url" THEN Str(v.v) ELSE v

attachment_model_to_row(att, sample_row_id) ==
    LET d == ChildDict("AttachmentModel", att, sample_row_id)
    IN  IF ~d.ok THEN d
        ELSE LET url == DictGet(d.value, "storage_url", None)
                 d2 == IF url # None
                       THEN DictSet(d.value, "storage_url", UrlToStr(url))
                       ELSE d.value
             IN  Ok(_dict_to_sa("sample_attachment", d2))

\* the element handed to answer_model_to_row / attachment_model_to_row:
\* a if hasattr(a, "dict") else cls.parse_obj(a)
AsModel(cls, a) ==
    IF hasattr_dict(a) THEN Ok(a)
    ELSE LET parsed == parse_child(cls, a.data)
         IN  IF parsed.ok THEN Ok(Model(parsed.inst)) ELSE Err("ValidationError")

\* a plausible slip: the children are popped from the sample's own mapping
argument_after_popped(p) ==
    IF hasattr_dict(p)
    THEN Model([p.inst EXCEPT !.answers = <<>>, !.attachments = <<>>])
    ELSE Raw(DictWithout(DictWithout(p.data, "answers"), "attachments"))

\* the argument after the call: p.dict() and parse_obj(p).dict() build a new
\* dict, and pd.pop("answers", []) and pd.pop("attachments", []) act on it
argument_after(p) == p

pydantic_to_sqlalchemy_sample(p) ==
    LET parsed == IF hasattr_dict(p) THEN [ok |-> TRUE, inst |-> p.inst]
                  ELSE parse_obj(p.data)
    IN  IF ~parsed.ok THEN Err("ValidationError")
        ELSE
        LET pd0 == dict(parsed.inst)
            answers == DictGet(pd0, "answers", List(<<>>)).items
            attachments == DictGet(pd0, "attachments", List(<<>>)).items
            pd == DictWithout(DictWithout(pd0, "answers"), "attachments")
            sample_row == _dict_to_sa("sample", pd)
            answer_models ==
                [i \in DOMAIN answers |-> AsModel("AnswerModel", Raw(answers[i]))]
            attachment_models ==
                [i \in DOMAIN attachments |->
                    AsModel("AttachmentModel", Raw(attachments[i]))]
        IN  IF (\E i \in DOMAIN answer_models : ~answer_models[i].ok)
               \/ (\E j \in DOMAIN attachment_models : ~attachment_models[j].ok)
            THEN Err("ValidationError")
            ELSE Ok([sample_row |-> sample_row,
                     answer_rows |->
                        [i \in DOMAIN answers |->
                            answer_model_to_row(answer_models[i].value, None).value],
                     attachment_rows |->
                        [i \in DOMAIN attachments |->
                            attachment_model_to_row(attachment_models[i].value,
                                                    None).value]])

\* hasattr(row, name) for a column attribute
hasattr(row, name) == name \in DOMAIN row.attrs

\* a plausible slip: the first child row is left out of the loop
SetSampleIdSkipFirst(rows, sid) ==
    [i \in DOMAIN rows |->
        IF i > 1 /\ hasattr(rows[i], "sample_id")
        THEN [rows[i] EXCEPT !.attrs["sample_id"] = sid]
        ELSE rows[i]]

\* for a in rows: if hasattr(a, "sample_id"): a.sample_id = sid
SetSampleId(rows, sid) ==
    [i \in DOMAIN rows |->
        IF hasattr(rows[i], "sample_id")
        THEN [rows[i] EXCEPT !.attrs["sample_id"] = sid]
        ELSE rows[i]]

\* a call that raised exc and left the rows it was given as value
Raised(exc, value) == [ok |-> FALSE, value |-> value, exc |-> exc]

\* a plausible slip: the identifier is checked after the loops over the child
\* rows, with sid = getattr(sample_row, "row_id", None)
attach_rows_to_sample_late_check(sample_row, answer_rows, attachment_rows) ==
    LET sid == IF hasattr(sample_row, "row_id") THEN sample_row.attrs["row_id"]
               ELSE None
        rows == [answer_rows |->
                    SetSampleId(IF answer_rows.some THEN answer_rows.v ELSE <<>>, sid),
                 attachment_rows |->
                    SetSampleId(IF attachment_rows.some THEN attachment_rows.v
                                ELSE <<>>, sid)]
    IN  IF sid = None THEN Raised("ValueError", rows) ELSE Ok(rows)

\* the method returns nothing and assigns to the rows it was given: its
\* value here is those rows after the call, also when the call raised
attach_rows_to_sample(sample_row, answer_rows, attachment_rows) ==
    IF ~hasattr(sample_row, "row_id") \/ sample_row.attrs["row_id"] = None
    THEN Raised("ValueError",
                [answer_rows |-> IF answer_rows.some THEN answer_rows.v ELSE <<>>,
                 attachment_rows |-> IF attachment_rows.some
                                     THEN attachment_rows.v ELSE <<>>])
    ELSE LET sid == sample_row.attrs["row_id"]
         IN  Ok([answer_rows |->
                    SetSampleId(IF answer_rows.some THEN answer_rows.v ELSE <<>>, sid),
                 attachment_rows |->
                    SetSampleId(IF attachment_rows.some THEN attachment_rows.v
                                ELSE <<>>, sid)])

\* {c: getattr(row, c, None) for c in cols}
RowToDict(row) ==
    LET cols == _table_column_names(row.cls)
    IN  [i \in DOMAIN cols |-> Item(cols[i], row.attrs[cols[i]])]

_sa_answer_to_dict(a_row) == RowToDict(a_row)

_sa_attachment_to_dict(at_row) == RowToDict(at_row)

\* a plausible slip: the child rows of the sample row are not converted
sqlalchemy_sample_to_pydantic_without_children(sample_row) ==
    LET parsed == parse_obj(RowToDict(sample_row))
    IN  IF parsed.ok THEN Ok(parsed.inst) ELSE Err("ValidationError")

\* the child rows a sample row exposes: getattr(sample_row, "answers", None)
sqlalchemy_sample_to_pydantic(sample_row) ==
    LET data0 == RowToDict(sample_row)
        data1 == IF sample_row.children.some
                 THEN DictSet(data0, "answers",
                        List([i \in DOMAIN sample_row.children.v.answers |->
                           _sa_answer_to_dict(sample_row.children.v.answers[i])]))
                 ELSE data0
        data == IF sample_row.children.some
                THEN DictSet(data1, "attachments",
                       List([i \in DOMAIN sample_row.children.v.attachments |->
                          _sa_attachment_to_dict(
                              sample_row.children.v.attachments[i])]))
                ELSE data1
        parsed == parse_obj(data)
    IN  IF parsed.ok THEN Ok(parsed.inst) ELSE Err("ValidationError")

\* a plausible slip: an element that fails is skipped and the rest returned
RECURSIVE BatchLoopSkipping(_, _)
BatchLoopSkipping(samples, out) ==
    IF Len(samples) = 0 THEN Ok(out)
    ELSE LET r == pydantic_to_sqlalchemy_sample(Head(samples))
         IN  BatchLoopSkipping(Tail(samples),
                               IF r.ok THEN Append(out, r.value) ELSE out)

\* a plausible slip: each result is put at the front of the list
RECURSIVE BatchLoopPrepending(_, _)
BatchLoopPrepending(samples, out) ==
    IF Len(samples) = 0 THEN Ok(out)
    ELSE LET r == pydantic_to_sqlalchemy_sample(Head(samples))
         IN  IF ~r.ok THEN r
             ELSE BatchLoopPrepending(Tail(samples), <<r.value>> \o out)

\* for s in samples: out.append(self.pydantic_to_sqlalchemy_sample(s))
RECURSIVE BatchLoop(_, _)
BatchLoop(samples, out) ==
    IF Len(samples) = 0 THEN Ok(out)
    ELSE LET r == pydantic_to_sqlalchemy_sample(Head(samples))
         IN  IF ~r.ok THEN r
             ELSE BatchLoop(Tail(samples), Append(out, r.value))

pydantic_list_to_sqlalchemy(samples) == BatchLoop(samples, <<>>)

(***************************************************************************)
(* The arguments and the instances of the model.                           *)
(***************************************************************************)
AnswerModels ==
    {Instance("AnswerModel",
              [key |-> Str("k"), value_text |-> a[1], value_boolean |-> a[2],
               value_json |-> a[3], answer_order |-> a[4]],
              <<>>, <<>>, <<>>) :
        a \in {<<None, None, None, None>>,
               <<Str("v"), None, None, Integer("1")>>,
               <<None, Bool("True"), Map("{'a': 1}"), None>>}}

AttachmentModels ==
    {Instance("AttachmentModel",
              [filename |-> Str("f"), storage_url |-> u], <<>>, <<>>, <<>>) :
        u \in {None, Url("http://u")}}

\* extra attributes of a sample (class Config: extra = "allow"): none, a
\* title, an attribute that has the name of the identifier column
ExtraAttributes ==
    {<<>>, <<Item("title", Str("t"))>>, <<Item("row_id", Integer("5"))>>}

SampleModels ==
    {Instance("SampleModel",
              [source |-> Str("s"), name |-> name, latitude |-> latitude],
              extras, answers, attachments) :
        name \in {None, Str("n")}, latitude \in {None, Float("45")},
        extras \in ExtraAttributes,
        answers \in SeqsUpTo(AnswerModels, MaxAnswers),
        attachments \in SeqsUpTo(AttachmentModels, MaxAttachments)}

\* mappings that are not model instances: valid, without the required
\* source, with a latitude out of range, with a valid and an invalid answer
RawSamples ==
    {<<Item("source", Str("s")), Item("name", Str("n"))>>,
     <<Item("name", Str("n"))>>,
     <<Item("source", Str("s")), Item("latitude", Float("91"))>>,
     <<Item("source", Str("s")),
       Item("answers", List(<<<<Item("key", Str("k"))>>>>))>>,
     <<Item("source", Str("s")),
       Item("answers", List(<<<<Item("value_text", Str("v"))>>>>))>>}

SampleInputs == {Model(m) : m \in SampleModels} \cup {Raw(d) : d \in RawSamples}

BatchItems ==
    {Model(Instance("SampleModel",
                    [source |-> Str("s"), name |-> name, latitude |-> None],
                    <<>>, <<>>, <<>>)) : name \in {None, Str("n")}}
    \cup {Raw(<<Item("source", Str("s")), Item("name", Str("n"))>>),
          Raw(<<Item("source", Str("s")), Item("latitude", Float("91"))>>)}

\* rename tables: none; a field to a column of another name; an extra
\* attribute to the column of a declared field; an answer field to the column
\* of another answer field; an answer field to the foreign-key column
FieldMaps ==
    {<<>>,
     "name" :> "title",
     "title" :> "name",
     "value_text" :> "answer_order",
     "value_text" :> "sample_id"}

\* the table classes given to the constructor, by their column names and
\* whether the sample class declares relationships to its child rows: the
\* full tables; tables whose answers have no sample_id column and whose
\* attachments have no storage_url column; tables whose samples have no
\* row_id and no title column
Tables ==
    {[sample |-> <<"row_id", "source", "name", "title">>,
      sample_answer |-> <<"row_id", "sample_id", "key", "value_text",
                          "value_boolean", "value_json", "answer_order">>,
      sample_attachment |-> <<"row_id", "sample_id", "filename", "storage_url">>,
      relationships |-> TRUE],
     [sample |-> <<"row_id", "source", "name", "title">>,
      sample_answer |-> <<"row_id", "key", "value_text", "answer_order">>,
      sample_attachment |-> <<"row_id", "sample_id", "filename">>,
      relationships |-> FALSE],
     [sample |-> <<"source", "name">>,
      sample_answer |-> <<"sample_id", "key", "value_text">>,
      sample_attachment |-> <<"sample_id", "filename", "storage_url">>,
      relationships |-> FALSE]}

NoRows == None

ConvIdleOf(c) ==
    [c EXCEPT !.op = "none", !.arg = <<>>, !.arg_after = <<>>,
              !.result = Ok(<<>>), !.rows = NoRows,
              !.before = NoRows, !.repeat = FALSE]

(***************************************************************************)
(* The calls on a Converters instance, and what happens to its rows        *)
(* between them.                                                           *)
(***************************************************************************)
ToRows ==
    /\ conv.op = "none"
    /\ \E p \in SampleInputs :
        LET r == pydantic_to_sqlalchemy_sample(p)
        IN  conv' = [conv EXCEPT !.op = "pydantic_to_sqlalchemy_sample",
                                 !.arg = p,
                                 !.arg_after = argument_after(p),
                                 !.result = r,
                                 !.rows = IF r.ok THEN Some(r.value) ELSE NoRows]
    /\ UNCHANGED <<cfg, call, sent, resp, result, gen, delivered>>

\* the caller persists the sample row: the storage assigns its row_id
Persist ==
    /\ conv.op = "pydantic_to_sqlalchemy_sample"
    /\ conv.rows.some
    /\ hasattr(conv.rows.v.sample_row, "row_id")
    /\ conv.rows.v.sample_row.attrs["row_id"] = None
    /\ conv' = [conv EXCEPT !.op = "persisted",
                            !.rows.v.sample_row.attrs["row_id"] = Integer("1")]
    /\ UNCHANGED <<cfg, call, sent, resp, result, gen, delivered>>

\* attach_rows_to_sample on the rows the caller holds; called again after
\* an attach_rows_to_sample, it is a second call with the same arguments
Attach ==
    /\ conv.op \in {"pydantic_to_sqlalchemy_sample", "persisted",
                    "attach_rows_to_sample"}
    /\ conv.rows.some
    /\ LET rows == conv.rows.v
           r == attach_rows_to_sample(rows.sample_row, Some(rows.answer_rows),
                                      Some(rows.attachment_rows))
       IN  conv' = [conv EXCEPT
                      !.op = "attach_rows_to_sample",
                      !.result = r,
                      !.before = conv.rows,
                      !.repeat = (conv.op = "attach_rows_to_sample"),
                      !.rows = Some([rows EXCEPT
                                      !.answer_rows = r.value.answer_rows,
                                      !.attachment_rows = r.value.attachment_rows])]
    /\ UNCHANGED <<cfg, call, sent, resp, result, gen, delivered>>

\* the caller puts the child rows into the sample row's relationship lists
\* (sample_row.answers, sample_row.attachments), as the storage does when
\* the rows are loaded
Relate ==
    /\ conv.op \in {"pydantic_to_sqlalchemy_sample", "persisted",
                    "attach_rows_to_sample"}
    /\ conv.rows.some
    /\ conv.rows.v.sample_row.children.some
    /\ Len(conv.rows.v.answer_rows) + Len(conv.rows.v.attachment_rows) > 0
    /\ conv' = [conv EXCEPT
                  !.op = "related",
                  !.before = NoRows,
                  !.repeat = FALSE,
                  !.rows.v.sample_row.children =
                      Some([answers |-> conv.rows.v.answer_rows,
                            attachments |-> conv.rows.v.attachment_rows])]
    /\ UNCHANGED <<cfg, call, sent, resp, result, gen, delivered>>

ToPydantic ==
    /\ conv.op \in {"pydantic_to_sqlalchemy_sample", "persisted",
                    "attach_rows_to_sample", "related"}
    /\ conv.rows.some
    /\ conv' = [conv EXCEPT
                  !.op = "sqlalchemy_sample_to_pydantic",
                  !.before = NoRows,
                  !.repeat = FALSE,
                  !.result = sqlalchemy_sample_to_pydantic(conv.rows.v.sample_row)]
    /\ UNCHANGED <<cfg, call, sent, resp, result, gen, delivered>>

Batch ==
    /\ conv.op = "none"
    /\ \E samples \in SeqsUpTo(BatchItems, MaxBatch) :
        conv' = [conv EXCEPT !.op = "pydantic_list_to_sqlalchemy",
                             !.arg = samples,
                             !.arg_after =
                                 [i \in DOMAIN samples |-> argument_after(samples[i])],
                             !.result = pydantic_list_to_sqlalchemy(samples),
                             !.rows = NoRows]
    /\ UNCHANGED <<cfg, call, sent, resp, result, gen, delivered>>

\* the caller is done with the rows and the result of the last call
ConvFinish ==
    /\ conv.op # "none"
    /\ conv' = ConvIdleOf(conv)
    /\ UNCHANGED <<cfg, call, sent, resp, result, gen, delivered>>

ConvInit ==
    /\ \E field_map \in FieldMaps, tables \in Tables :
        conv = [field_map |-> field_map, tables |-> tables,
                op |-> "none", arg |-> <<>>, arg_after |-> <<>>,
                result |-> Ok(<<>>), rows |-> NoRows,
                before |-> NoRows, repeat |-> FALSE]
    /\ cfg = [api_key |-> "test_key", headers |-> [X_API_Key |-> "test_key"],
              timeout |-> 10, BASE_URL |-> BASE_URL]
    /\ call = NoCall
    /\ sent = <<>>
    /\ resp = <<>>
    /\ result = Return("none")
    /\ gen = "none"
    /\ delivered = <<>>

ConvNext ==
    \/ ToRows
    \/ Persist
    \/ Attach
    \/ Relate
    \/ ToPydantic
    \/ Batch
    \/ ConvFinish

ConvSpec == ConvInit /\ [][ConvNext]_vars

(***************************************************************************)
(* Claims about the converters.                                            *)
(***************************************************************************)
Attached == conv.op = "attach_rows_to_sample"

ChildRows == conv.rows.v.answer_rows \o conv.rows.v.attachment_rows

RowIdUnset(sample_row) ==
    ~hasattr(sample_row, "row_id") \/ sample_row.attrs["row_id"] = None

\* C5 (as claimed): attach_rows_to_sample fails when the sample row has no
\* row_id or a null one; otherwise it succeeds and every answer row and every
\* attachment row has sample_id equal to the sample row's row_id.
C5_AttachSetsEveryChild ==
    Attached =>
        IF RowIdUnset(conv.rows.v.sample_row)
        THEN ~conv.result.ok
        ELSE /\ conv.result.ok
             /\ \A i \in DOMAIN ChildRows :
                    /\ hasattr(ChildRows[i], "sample_id")
                    /\ ChildRows[i].attrs["sample_id"]
                           = conv.rows.v.sample_row.attrs["row_id"]

\* C5 (amended): attach_rows_to_sample fails with ValueError when the sample
\* row has no row_id or a null one; otherwise it succeeds and every answer
\* row and every attachment row that has a sample_id attribute has sample_id
\* equal to the sample row's row_id.
C5_AttachSetsChildrenWithSampleId ==
    Attached =>
        IF RowIdUnset(conv.rows.v.sample_row)
        THEN ~conv.result.ok /\ conv.result.exc = "ValueError"
        ELSE /\ conv.result.ok
             /\ \A i \in DOMAIN ChildRows :
                    hasattr(ChildRows[i], "sample_id")
                        => ChildRows[i].attrs["sample_id"]
                               = conv.rows.v.sample_row.attrs["row_id"]

C5_Witness ==
    /\ Attached
    /\ conv.result.ok
    /\ Len(conv.rows.v.answer_rows) = 2
    /\ Len(conv.rows.v.attachment_rows) = 1
    /\ ~hasattr(conv.rows.v.answer_rows[1], "sample_id")
    /\ conv.rows.v.attachment_rows[1].attrs["sample_id"] = Integer("1")
    /\ conv.rows.v.sample_row.attrs["row_id"] = Integer("1")

\* the storage column of a domain field under the rename table
Renamed(k) == IF k \in DOMAIN conv.field_map THEN conv.field_map[k] ELSE k

\* C6 (as claimed): converting a valid sample to rows and its sample row back
\* gives a sample with the original value in every declared field whose
\* storage column (its name after renaming) is a column of the sample table,
\* and without a value in every other declared field.
C6_RoundTrip ==
    (conv.op = "sqlalchemy_sample_to_pydantic" /\ hasattr_dict(conv.arg))
        => /\ conv.result.ok
           /\ \A f \in Range(ModelFields("SampleModel")) :
                  conv.result.value.fields[f]
                      = IF Renamed(f) \in Range(conv.tables["sample"])
                        THEN conv.arg.inst.fields[f]
                        ELSE None

Batched == conv.op = "pydantic_list_to_sqlalchemy"

\* an element that is no model instance and does not validate
Invalid(x) == ~hasattr_dict(x) /\ ~parse_obj(x.data).ok

\* C7: pydantic_list_to_sqlalchemy on a list with an invalid element fails as
\* a whole: it raises and the caller receives no row tuple.
C7_BatchFailsFast ==
    (Batched /\ \E i \in DOMAIN conv.arg : Invalid(conv.arg[i]))
        => /\ ~conv.result.ok
           /\ conv.result.exc = "ValidationError"
           /\ conv.result.value = <<>>

C7_Witness ==
    /\ Batched
    /\ Len(conv.arg) = 3
    /\ ~Invalid(conv.arg[1])
    /\ ~Invalid(conv.arg[2])
    /\ Invalid(conv.arg[3])
    /\ ~conv.result.ok

\* C8: on a list of valid samples pydantic_list_to_sqlalchemy returns a list
\* of the same length whose i-th element is the conversion of the i-th sample.
C8_BatchPreservesOrder ==
    (Batched /\ \A i \in DOMAIN conv.arg : ~Invalid(conv.arg[i]))
        => /\ conv.result.ok
           /\ Len(conv.result.value) = Len(conv.arg)
           /\ \A i \in DOMAIN conv.arg :
                  conv.result.value[i]
                      = pydantic_to_sqlalchemy_sample(conv.arg[i]).value

C8_Witness ==
    /\ Batched
    /\ Len(conv.arg) = 3
    /\ conv.result.ok
    /\ conv.result.value[1] # conv.result.value[2]
    /\ conv.result.value[1] = conv.result.value[3]

Converted == conv.op = "pydantic_to_sqlalchemy_sample" /\ conv.result.ok

\* the sample that was converted: the argument, validated if it was a mapping
Source == IF hasattr_dict(conv.arg) THEN conv.arg.inst
          ELSE parse_obj(conv.arg.data).inst

ExtraKeys(inst) == [i \in DOMAIN inst.extras |-> inst.extras[i].k]

\* the names of a source record in its field order: declared, then extra
FieldOrder(inst) == ModelFields(inst.cls) \o ExtraKeys(inst)

FieldValue(inst, k) ==
    IF k \in Range(ModelFields(inst.cls)) THEN inst.fields[k]
    ELSE DictGet(inst.extras, k, None)

Populated(inst) == {k \in Range(FieldOrder(inst)) : FieldValue(inst, k) # None}

\* a value as a row stores it: a URL as its string
Stored(v) == IF v # None /\ v.t = "url" THEN Str(v.v) ELSE v

\* C9 (as claimed): the row built from a source record carries exactly the
\* populated source fields after renaming, restricted to the declared columns
\* of its table, each with its source value.
RowAsClaimed(inst, row) ==
    LET cols == Range(conv.tables[row.cls])
    IN  /\ DictKeys(row.kwargs) \subseteq cols
        /\ DictKeys(row.kwargs) = {Renamed(k) : k \in Populated(inst)} \cap cols
        /\ \A k \in Populated(inst) :
               Renamed(k) \in cols
                   => DictGet(row.kwargs, Renamed(k), None)
                          = Stored(FieldValue(inst, k))

GivenValue(inst, k) ==
    IF inst.cls # "SampleModel" /\ FieldValue(inst, k) = None
    THEN FieldDefault(inst.cls, k)
    ELSE FieldValue(inst, k)

Given(inst) == {k \in Range(FieldOrder(inst)) : GivenValue(inst, k) # None}

Position(inst, k) == CHOOSE i \in DOMAIN FieldOrder(inst) : FieldOrder(inst)[i] = k

\* the last field, in field order, that is renamed to the column
LastRenamedTo(inst, col) ==
    CHOOSE k \in Given(inst) :
        /\ Renamed(k) = col
        /\ \A k2 \in Given(inst) :
               Renamed(k2) = col => Position(inst, k2) <= Position(inst, k)

\* C9 (amended): the row built from a source record carries no key that is
\* not a declared column; its keys are the renamed names, restricted to the
\* declared columns, of the populated source fields and, for an answer, of
\* answer_order at its default 0 when the source left it null; each such
\* field appears under its renamed name with its value (a URL as its string)
\* unless a later field of the record is renamed to the same column, whose
\* value the column then holds.
RowAmended(inst, row) ==
    LET cols == Range(conv.tables[row.cls])
    IN  /\ DictKeys(row.kwargs) \subseteq cols
        /\ DictKeys(row.kwargs) = {Renamed(k) : k \in Given(inst)} \cap cols
        /\ \A k \in Given(inst) :
               Renamed(k) \in cols
                   => DictGet(row.kwargs, Renamed(k), None)
                          = Stored(GivenValue(inst,
                                              LastRenamedTo(inst, Renamed(k))))

ReturnedRows ==
    <<conv.result.value.sample_row>> \o conv.result.value.answer_rows
        \o conv.result.value.attachment_rows

Scalar(v) == v.t \in {"str", "int", "float", "bool"}

\* C16 (as claimed): every value the converter places in a row is a scalar:
\* a URL or a mapping (storage_url, value_json, ...) has been replaced by its
\* string form, and a number or a boolean is the source's value unchanged.
C16_RowValuesAreScalars ==
    Converted =>
        \A i \in DOMAIN ReturnedRows :
            \A j \in DOMAIN ReturnedRows[i].kwargs :
                Scalar(ReturnedRows[i].kwargs[j].v)

Unset(row, name) == hasattr(row, name) => row.attrs[name] = None

\* C17 (as claimed): right after pydantic_to_sqlalchemy_sample, whatever the
\* sample (extra attributes included) and whatever the rename table, the
\* returned sample row has no row_id and no returned answer or attachment
\* row has a sample_id.
C17_NoIdentifiersAfterConversion ==
    Converted =>
        /\ Unset(conv.result.value.sample_row, "row_id")
        /\ \A i \in DOMAIN conv.result.value.answer_rows :
               Unset(conv.result.value.answer_rows[i], "sample_id")
        /\ \A i \in DOMAIN conv.result.value.attachment_rows :
               Unset(conv.result.value.attachment_rows[i], "sample_id")

ToPydanticDone == conv.op = "sqlalchemy_sample_to_pydantic" /\ conv.result.ok

\* the fields of a converted child that are columns of its row have the
\* row's values (a URL by its string)
ChildReadFrom(child, row) ==
    \A f \in Range(ModelFields(child.cls)) :
        hasattr(row, f) => Stored(child.fields[f]) = row.attrs[f]

\* C19: the sample sqlalchemy_sample_to_pydantic returns has, under the name
\* of every declared column of the sample row's type, the value the row has
\* for it; when the row exposes child rows, the result's answers and
\* attachments are those rows converted, one for one and in the rows' order;
\* when it exposes none, the result's answers and attachments are empty.
C19_RowReadBack ==
    ToPydanticDone =>
        LET row == conv.rows.v.sample_row
            out == conv.result.value
        IN  /\ \A col \in Range(conv.tables["sample"]) :
                   /\ col \in Range(FieldOrder(out))
                   /\ FieldValue(out, col) = row.attrs[col]
            /\ IF row.children.some
               THEN /\ Len(out.answers) = Len(row.children.v.answers)
                    /\ Len(out.attachments) = Len(row.children.v.attachments)
                    /\ \A i \in DOMAIN out.answers :
                           ChildReadFrom(out.answers[i], row.children.v.answers[i])
                    /\ \A i \in DOMAIN out.attachments :
                           ChildReadFrom(out.attachments[i],
                                         row.children.v.attachments[i])
               ELSE out.answers = <<>> /\ out.attachments = <<>>

\* a sample row that exposes two different answer rows
C19_Witness ==
    /\ ToPydanticDone
    /\ conv.rows.v.sample_row.children.some
    /\ Len(conv.rows.v.sample_row.children.v.answers) = 2
    /\ conv.rows.v.sample_row.children.v.answers[1].attrs["value_text"] = Str("v")
    /\ conv.rows.v.sample_row.children.v.answers[2].attrs["value_text"] = None
    /\ Len(conv.result.value.answers) = 2
    /\ conv.result.value.answers[1].fields["value_text"] = Str("v")
    /\ conv.result.value.answers[2].fields["value_text"] = None
    /\ FieldValue(conv.result.value, "row_id") = Integer("1")

\* C20: a call of attach_rows_to_sample that fails leaves every answer row
\* and every attachment row as it was before the call; and a call that
\* repeats a call with the same arguments and succeeds leaves every row as
\* the first call left it.
C20_AttachFailureAndRepeatChangeNothing ==
    Attached =>
        /\ ~conv.result.ok => conv.rows = conv.before
        /\ (conv.result.ok /\ conv.repeat) => conv.rows = conv.before

\* a second successful call on rows whose sample_id the first call has set
C20_Witness ==
    /\ Attached
    /\ conv.result.ok
    /\ conv.repeat
    /\ Len(conv.rows.v.answer_rows) = 2
    /\ Len(conv.rows.v.attachment_rows) = 1
    /\ hasattr(conv.rows.v.answer_rows[1], "sample_id")
    /\ hasattr(conv.rows.v.attachment_rows[1], "sample_id")
    /\ conv.rows.v.answer_rows[1].attrs["sample_id"] = Integer("1")
    /\ conv.rows.v.attachment_rows[1].attrs["sample_id"] = Integer("1")
    /\ conv.rows = conv.before

\* C21: after pydantic_to_sqlalchemy_sample the sample given is as it was
\* before the call, its answers and attachments included; the call returned
\* one answer row for each answer and one attachment row for each attachment,
\* the i-th row built from the i-th element; and the sample row was given
\* neither an answers nor an attachments key.
C21_InputKeptAndChildrenInOrder ==
    Converted =>
        /\ conv.arg_after = conv.arg
        /\ Len(conv.result.value.answer_rows) = Len(Source.answers)
        /\ Len(conv.result.value.attachment_rows) = Len(Source.attachments)
        /\ \A i \in DOMAIN Source.answers :
               RowAmended(Source.answers[i], conv.result.value.answer_rows[i])
        /\ \A i \in DOMAIN Source.attachments :
               RowAmended(Source.attachments[i],
                          conv.result.value.attachment_rows[i])
        /\ {"answers", "attachments"}
               \cap DictKeys(conv.result.value.sample_row.kwargs) = {}

\* a sample with two different answers and an attachment
C21_Witness ==
    /\ Converted
    /\ conv.field_map = <<>>
    /\ hasattr_dict(conv.arg)
    /\ Len(conv.arg.inst.answers) = 2
    /\ Len(conv.arg.inst.attachments) = 1
    /\ conv.arg.inst.answers[1].fields["value_text"] = Str("v")
    /\ conv.arg.inst.answers[2].fields["value_text"] = None
    /\ conv.arg_after = conv.arg
    /\ Len(conv.result.value.answer_rows) = 2
    /\ DictGet(conv.result.value.answer_rows[1].kwargs, "value_text", None)
           = Str("v")
    /\ DictGet(conv.result.value.answer_rows[2].kwargs, "value_text", None)
           = None
    /\ Len(conv.result.value.attachment_rows) = 1

====
